---- MODULE Spec2Model ----
(***************************************************************************)
(* Model of server.js: the in-memory session store and history trimmer,   *)
(* the /ask chat relay, the /stt transcription relay and the /tts speech  *)
(* relay.  Strings are tuples of one-character strings so that trim(),    *)
(* toLowerCase() and slice() are computed, not assumed.  Arrays are       *)
(* objects on a heap (heap[a] is the array at address a): the handlers    *)
(* push onto the array they hold, and the store holds addresses.          *)
(***************************************************************************)
EXTENDS Integers, Sequences, FiniteSets, TLC

VARIABLES
  sessions,   \* /ask: the Map: sessionId -> address of the stored array
  heap,       \* /ask: the message arrays, by address
  reqs,       \* /ask: the requests received so far, in start order
  appended,   \* /ask: per session, every turn pushed since the entry was created (history variable)
  tIn,        \* trimMessages: argument msgs
  tMax,       \* trimMessages: argument max
  tOut,       \* trimMessages: the returned array
  tpc,        \* trimMessages: "input" | "done"
  files,      \* /stt: the files of __dirname, by path
  stts,       \* /stt: the requests received so far, in start order
  unlinks,    \* /stt: fs.unlink calls issued and not yet carried out
  envVoice,   \* /tts: process.env.OPENAI_TTS_VOICE
  ttss        \* /tts: the requests received so far, in start order

askVars  == <<sessions, heap, reqs, appended>>
trimVars == <<tIn, tMax, tOut, tpc>>
sttVars  == <<files, stts, unlinks>>
ttsVars  == <<envVoice, ttss>>
vars     == <<sessions, heap, reqs, appended, tIn, tMax, tOut, tpc, files, stts, unlinks, envVoice, ttss>>

(***************************************************************************)
(* Bounds of the model.                                                    *)
(***************************************************************************)
MaxReqs == 2        \* /ask requests per behaviour
MaxSeed == 10       \* completed exchanges of the session present at start
MaxTrimLen == 3     \* length of the arrays handed to trimMessages
MaxTrimMax == 3     \* values of max handed to trimMessages
MaxStt == 2         \* /stt requests per behaviour
MaxTts == 2         \* /tts requests per behaviour

Min(a, b) == IF a < b THEN a ELSE b
Max(a, b) == IF a > b THEN a ELSE b

(***************************************************************************)
(* JavaScript built-ins used by the handlers.                              *)
(***************************************************************************)
Whitespace == {" ", "\n"}

\* Array.prototype.slice(start) / String.prototype.slice(start): a negative
\* start counts from the end; -0 is 0.
SliceFrom(arr, start) ==
  LET len == Len(arr)
      k   == IF start < 0 THEN Max(len + start, 0) ELSE Min(start, len)
  IN  SubSeq(arr, k + 1, len)

RECURSIVE trimStart(_)
trimStart(s) ==
  IF s # <<>> /\ Head(s) \in Whitespace THEN trimStart(Tail(s)) ELSE s

RECURSIVE trimEnd(_)
trimEnd(s) ==
  IF s # <<>> /\ s[Len(s)] \in Whitespace THEN trimEnd(SubSeq(s, 1, Len(s) - 1)) ELSE s

\* String.prototype.trim()
trim(s) == trimEnd(trimStart(s))

(***************************************************************************)
(* Session store and history trimmer (server.js 36-43).                    *)
(***************************************************************************)
SYSTEM_PROMPT == <<"P">>
HistoryMax == 20

Turn(r, c) == [role |-> r, content |-> c]

\* A trimmer that keeps the last max turns and no more.
trimMessagesNoSystem(msgs, max) == SliceFrom(msgs, -max)

\* trimMessages(msgs, max)
trimMessages(msgs, max) ==
  LET system == IF Len(msgs) # 0 /\ msgs[1].role = "system" THEN <<msgs[1]>> ELSE <<>>
      rest   == SliceFrom(msgs, Len(system))
  IN  system \o SliceFrom(rest, -max)

\* sessions.set(k, v)
MapSet(m, k, v) == [x \in (DOMAIN m) \cup {k} |-> IF x = k THEN v ELSE m[x]]

\* genId(): Math.random().toString(36).slice(2,10), an 8-character base-36
\* token.  The model draws it from GenIds; nothing keeps it from repeating.
GenIds == {"g1"}
genId(tok) == tok

(***************************************************************************)
(* /ask (server.js 98-139).                                                *)
(***************************************************************************)
NoId == "undefined"               \* no sessionId in the body or the query
Ids  == GenIds \cup {"c1"}        \* the identifiers a client may send

\* req.body.message: absent, a string, or a truthy value that is no string
Messages ==
  { [kind |-> "undefined", val |-> <<>>],
    [kind |-> "string",    val |-> <<>>],
    [kind |-> "string",    val |-> <<"\n", " ">>],
    [kind |-> "string",    val |-> <<" ", "h", " ">>],
    [kind |-> "string",    val |-> <<"k">>],
    [kind |-> "other",     val |-> <<"5">>] }

\* choices[0].message.content of the remote reply: absent or a string
Contents ==
  { [kind |-> "undefined", val |-> <<>>],
    [kind |-> "string",    val |-> <<"y", " ">>] }

\* err.response.status of a failed remote call (0: the error carries none)
ErrStatuses == {0, 429}

\* x || "" for an absent value or a string
OrEmpty(x) == IF x.kind = "undefined" THEN <<>> ELSE x.val

\* Line 100 without the trim().
userTextNoTrim(message) == OrEmpty(message)

\* line 100: (req.body?.message || "").trim()
userTextOf(message) == trim(OrEmpty(message))

\* line 104: req.body?.sessionId || req.query?.sessionId
sessionIdOf(bodySid, querySid) == IF bodySid # NoId THEN bodySid ELSE querySid

\* Line 106 never finding the entry.
HasSessionNever(sess, sid) == FALSE

\* line 106: sessionId && sessions.has(sessionId)
HasSession(sess, sid) == sid # NoId /\ sid \in DOMAIN sess

\* Line 109 always generating.
NewSessionIdAlwaysGen(sid, tok) == genId(tok)

\* line 109: sessionId || genId()
NewSessionId(sid, tok) == IF sid # NoId THEN sid ELSE genId(tok)

\* Line 116 left out: the entry is written only after the remote call.
StoreAtStartMissing(sess, sid, addr) == sess

\* line 116: sessions.set(sessionId, messages), before the remote call
StoreAtStart(sess, sid, addr) == MapSet(sess, sid, addr)

\* Line 129 left out.
StoreAtResumeMissing(sess, sid, addr) == sess

\* line 129: sessions.set(sessionId, messages), after the remote call
StoreAtResume(sess, sid, addr) == MapSet(sess, sid, addr)

\* lines 135, 186, 215: err?.response?.status || 500
ErrStatus(e) == IF e # 0 THEN e ELSE 500

InFlight == {i \in 1..Len(reqs) : reqs[i].pc = "awaiting"}
Done     == {i \in 1..Len(reqs) : reqs[i].pc = "done"}

\* A request as received: nothing resolved, nothing answered.
NewReq(message, sid) ==
  [ message |-> message, rawSid |-> sid, genTok |-> NoId, sessionId |-> NoId,
    userText |-> <<>>, messages |-> 0, pc |-> "done", status |-> 0,
    answer |-> <<>>, respSid |-> NoId, sent |-> <<>>, called |-> FALSE, created |-> FALSE,
    doneBefore |-> Done, clean |-> TRUE ]

\* Lines 99-123: the handler up to the await of the remote chat call.
AskStart(message, bodySid, querySid, tok) ==
  /\ Len(reqs) < MaxReqs
  /\ LET sid0 == sessionIdOf(bodySid, querySid)
         r0   == NewReq(message, sid0)
     IN
     IF message.kind = "other"
     THEN \* .trim is not a function: TypeError, caught at 133
          /\ reqs' = Append(reqs, [r0 EXCEPT !.status = ErrStatus(0)])
          /\ UNCHANGED <<sessions, heap, appended>>
     ELSE
     LET userText == userTextOf(message) IN
     IF userText = <<>>
     THEN /\ reqs' = Append(reqs, [r0 EXCEPT !.status = 400])
          /\ UNCHANGED <<sessions, heap, appended>>
     ELSE
     LET has   == HasSession(sessions, sid0)
         sid   == IF has THEN sid0 ELSE NewSessionId(sid0, tok)
         user  == Turn("user", userText)
         \* 107 / 110: the stored array itself, or a new one
         heap1 == IF has THEN heap ELSE Append(heap, <<Turn("system", SYSTEM_PROMPT)>>)
         a     == IF has THEN sessions[sid0] ELSE Len(heap1)
         \* 114: push onto that array
         heap2 == [heap1 EXCEPT ![a] = Append(@, user)]
         \* 115: trimMessages returns a new array
         heap3 == Append(heap2, trimMessages(heap2[a], HistoryMax))
         b     == Len(heap3)
         busy  == {i \in InFlight : reqs[i].sessionId = sid}
     IN
     /\ heap' = heap3
     /\ sessions' = StoreAtStart(sessions, sid, b)
     /\ appended' = IF has THEN [appended EXCEPT ![sid] = Append(@, user)]
                           ELSE MapSet(appended, sid, <<user>>)
     /\ reqs' = Append([i \in 1..Len(reqs) |->
                          IF i \in busy THEN [reqs[i] EXCEPT !.clean = FALSE] ELSE reqs[i]],
                       [r0 EXCEPT !.genTok = IF has \/ sid0 # NoId THEN NoId ELSE genId(tok),
                                  !.sessionId = sid, !.userText = userText,
                                  !.messages = b, !.pc = "awaiting",
                                  !.sent = heap3[b], !.called = TRUE,
                                  !.created = ~has, !.clean = (busy = {})])
  /\ UNCHANGED <<trimVars, sttVars, ttsVars>>

\* Lines 125-132: the remote call returned.
AskResume(i, content) ==
  /\ i \in InFlight
  /\ LET r      == reqs[i]
         answer == trim(OrEmpty(content))
         asst   == Turn("assistant", answer)
         heap1  == [heap EXCEPT ![r.messages] = Append(@, asst)]
         heap2  == Append(heap1, trimMessages(heap1[r.messages], HistoryMax))
         b      == Len(heap2)
     IN
     /\ heap' = heap2
     /\ sessions' = StoreAtResume(sessions, r.sessionId, b)
     /\ appended' = [appended EXCEPT ![r.sessionId] = Append(@, asst)]
     /\ reqs' = [reqs EXCEPT ![i] = [r EXCEPT !.pc = "done", !.status = 200,
                                              !.answer = answer, !.respSid = r.sessionId,
                                              !.messages = b]]
  /\ UNCHANGED <<trimVars, sttVars, ttsVars>>

\* Lines 133-138: the remote call failed.
AskFail(i, e) ==
  /\ i \in InFlight
  /\ reqs' = [reqs EXCEPT ![i] = [@ EXCEPT !.pc = "done", !.status = ErrStatus(e)]]
  /\ UNCHANGED <<sessions, heap, appended>>
  /\ UNCHANGED <<trimVars, sttVars, ttsVars>>

\* The history after n exchanges of one client with a new session, each
\* exchange lines 114-116 and 127-129.
RECURSIVE SeedHistory(_)
SeedHistory(n) ==
  IF n = 0 THEN <<Turn("system", SYSTEM_PROMPT)>>
  ELSE trimMessages(
         Append(trimMessages(Append(SeedHistory(n - 1), Turn("user", <<"h">>)), HistoryMax),
                Turn("assistant", <<"y">>)),
         HistoryMax)

IdleTrim == tIn = <<>> /\ tMax = 0 /\ tOut = <<>> /\ tpc = "idle"
IdleStt  == files = <<>> /\ stts = <<>> /\ unlinks = {}
IdleTts  == envVoice = [kind |-> "undefined", val |-> <<>>] /\ ttss = <<>>

\* The store is empty, or holds one session after MaxSeed exchanges.
Init ==
  /\ reqs = <<>>
  /\ \/ sessions = <<>> /\ heap = <<>> /\ appended = <<>>
     \/ /\ sessions = MapSet(<<>>, "g1", 1)
        /\ heap = <<SeedHistory(MaxSeed)>>
        /\ appended = MapSet(<<>>, "g1", SliceFrom(SeedHistory(MaxSeed), 1))
  /\ IdleTrim /\ IdleStt /\ IdleTts

Next ==
  \/ \E m \in Messages, b \in Ids \cup {NoId}, q \in Ids \cup {NoId}, t \in GenIds :
       AskStart(m, b, q, t)
  \/ \E i \in 1..MaxReqs, c \in Contents : AskResume(i, c)
  \/ \E i \in 1..MaxReqs, e \in ErrStatuses : AskFail(i, e)

Spec == Init /\ [][Next]_vars

IdleAsk == sessions = <<>> /\ heap = <<>> /\ reqs = <<>> /\ appended = <<>>

(***************************************************************************)
(* trimMessages on its own: every array of at most MaxTrimLen turns, every *)
(* max in 0..MaxTrimMax.                                                   *)
(***************************************************************************)
TrimTurns == {Turn(r, <<c>>) : r \in {"system", "user", "assistant"}, c \in {"a", "b"}}
TrimInputs == UNION {[1..n -> TrimTurns] : n \in 0..MaxTrimLen}

InitTrim ==
  /\ tIn \in TrimInputs
  /\ tMax \in 0..MaxTrimMax
  /\ tOut = <<>>
  /\ tpc = "input"
  /\ IdleAsk /\ IdleStt /\ IdleTts

TrimApply ==
  /\ tpc = "input"
  /\ tOut' = trimMessages(tIn, tMax)
  /\ tpc' = "done"
  /\ UNCHANGED <<tIn, tMax, askVars, sttVars, ttsVars>>

NextTrim == TrimApply

SpecTrim == InitTrim /\ [][NextTrim]_vars

(***************************************************************************)
(* /stt (server.js 142-190).  A file holds the number of the request whose *)
(* buffer was written to it; a removed file remembers whose unlink did it. *)
(***************************************************************************)
allowedMimes ==
  { "audio/mpeg", "audio/mp3", "audio/mpga", "audio/wav",
    "audio/webm", "audio/ogg", "audio/mp4", "audio/m4a" }

\* extByMime[mimetype] || ""
extByMime(mimetype) ==
  CASE mimetype \in {"audio/mpeg", "audio/mp3", "audio/mpga"} -> ".mp3"
    [] mimetype = "audio/wav"  -> ".wav"
    [] mimetype = "audio/webm" -> ".webm"
    [] mimetype = "audio/ogg"  -> ".ogg"
    [] mimetype \in {"audio/mp4", "audio/m4a"} -> ".m4a"
    [] OTHER -> ""

\* One path for every upload.
tmpPathFixed(ext) == <<"tmp-upload", "">>

\* line 173: path.join(__dirname, "tmp-upload" + ext)
tmpPath(ext) == <<"tmp-upload", ext>>

\* The media types the uploads of the model declare.
UploadMimes == {"audio/mpeg", "audio/mp3", "audio/wav", "image/png"}

\* tr.text of the remote reply: absent or a string
Texts ==
  { [kind |-> "undefined", val |-> <<>>],
    [kind |-> "string",    val |-> <<"t">>] }

SttInFlight == {i \in 1..Len(stts) : stts[i].pc = "awaiting"}

NewStt(hasFile, mimetype) ==
  [ hasFile |-> hasFile, mimetype |-> mimetype, path |-> <<>>, wrote |-> FALSE,
    pc |-> "done", read |-> "none", readFrom |-> 0, unlinked |-> FALSE,
    status |-> 400, text |-> <<>> ]

\* Lines 143-180: the handler up to the await of the remote transcription.
SttStart(hasFile, mimetype) ==
  /\ Len(stts) < MaxStt
  /\ LET n  == Len(stts) + 1
         r0 == NewStt(hasFile, mimetype)
     IN
     IF ~hasFile \/ mimetype \notin allowedMimes
     THEN /\ stts' = Append(stts, r0)
          /\ UNCHANGED <<files, unlinks>>
     ELSE
     LET p == tmpPath(extByMime(mimetype)) IN
     /\ files' = MapSet(files, p, [state |-> "present", by |-> n])
     /\ stts' = Append(stts, [r0 EXCEPT !.path = p, !.wrote = TRUE, !.pc = "awaiting",
                                        !.status = 0])
     /\ UNCHANGED unlinks
  /\ UNCHANGED <<askVars, trimVars, ttsVars>>

\* Line 178: the stream opened on tmpPath is read while the call is awaited.
SttRead(i) ==
  /\ i \in SttInFlight
  /\ stts[i].read = "none"
  /\ LET f == files[stts[i].path] IN
     stts' = [stts EXCEPT ![i] = [@ EXCEPT !.read = IF f.state = "present" THEN "data" ELSE "enoent",
                                          !.readFrom = f.by]]
  /\ UNCHANGED <<files, unlinks>>
  /\ UNCHANGED <<askVars, trimVars, ttsVars>>

\* Lines 182-183: the transcription returned; fs.unlink is issued.
SttResume(i, text) ==
  /\ i \in SttInFlight
  /\ stts[i].read = "data"
  /\ stts' = [stts EXCEPT ![i] = [@ EXCEPT !.pc = "done", !.status = 200,
                                         !.text = OrEmpty(text), !.unlinked = TRUE]]
  /\ unlinks' = unlinks \cup {i}
  /\ UNCHANGED files
  /\ UNCHANGED <<askVars, trimVars, ttsVars>>

\* Lines 184-189: the call failed (the stream's ENOENT carries no status).
SttFail(i, e) ==
  /\ i \in SttInFlight
  /\ stts[i].read = "enoent" => e = 0
  /\ stts' = [stts EXCEPT ![i] = [@ EXCEPT !.pc = "done", !.status = ErrStatus(e)]]
  /\ UNCHANGED <<files, unlinks>>
  /\ UNCHANGED <<askVars, trimVars, ttsVars>>

\* Line 182: an issued fs.unlink is carried out; its error is ignored.
UnlinkDone(i) ==
  /\ i \in unlinks
  /\ unlinks' = unlinks \ {i}
  /\ files' = IF files[stts[i].path].state = "present"
              THEN [files EXCEPT ![stts[i].path] = [state |-> "removed", by |-> i]]
              ELSE files
  /\ UNCHANGED stts
  /\ UNCHANGED <<askVars, trimVars, ttsVars>>

InitStt ==
  /\ files = <<>> /\ stts = <<>> /\ unlinks = {}
  /\ IdleAsk /\ IdleTrim /\ IdleTts

NextStt ==
  \/ \E h \in BOOLEAN, m \in UploadMimes : SttStart(h, m)
  \/ \E i \in 1..MaxStt : SttRead(i)
  \/ \E i \in 1..MaxStt, t \in Texts : SttResume(i, t)
  \/ \E i \in 1..MaxStt, e \in ErrStatuses : SttFail(i, e)
  \/ \E i \in 1..MaxStt : UnlinkDone(i)

SpecStt == InitStt /\ [][NextStt]_vars

(***************************************************************************)
(* /tts (server.js 193-219).  The text is its length.                      *)
(***************************************************************************)
TextMax == 1200
DefaultVoice == <<"a", "l", "l", "o", "y">>

allowedVoices ==
  { <<"n", "o", "v", "a">>, <<"s", "h", "i", "m", "m", "e", "r">>, <<"e", "c", "h", "o">>,
    <<"o", "n", "y", "x">>, <<"f", "a", "b", "l", "e">>, <<"a", "l", "l", "o", "y">>,
    <<"a", "s", "h">>, <<"s", "a", "g", "e">>, <<"c", "o", "r", "a", "l">> }

\* String.prototype.toLowerCase(), on the letters the model uses
LowerChar(c) ==
  CASE c = "N" -> "n" [] c = "O" -> "o" [] c = "V" -> "v" [] c = "A" -> "a"
    [] c = "E" -> "e" [] c = "C" -> "c" [] c = "H" -> "h" [] OTHER -> c
toLowerCase(s) == [k \in 1..Len(s) |-> LowerChar(s[k])]

\* process.env.OPENAI_TTS_VOICE, and ?voice= of a request
Voices ==
  { [kind |-> "undefined", val |-> <<>>],
    [kind |-> "string",    val |-> <<"N", "o", "v", "a">>],
    [kind |-> "string",    val |-> <<"e", "c", "h", "o">>],
    [kind |-> "string",    val |-> <<"b", "o", "g", "u", "s">>] }

\* ?text= of a request, as its length (0: missing or empty)
TextLens == {0, 5, TextMax + 1}

\* lines 199-200: the voice handed to the remote service
voiceOf(env) ==
  LET voice == toLowerCase(IF env.kind = "undefined" \/ env.val = <<>> THEN DefaultVoice ELSE env.val)
  IN  IF voice \in allowedVoices THEN voice ELSE DefaultVoice

TtsInFlight == {i \in 1..Len(ttss) : ttss[i].pc = "awaiting"}

\* Lines 195-207: the handler up to the await of the remote speech call.
TtsStart(textLen, voice) ==
  /\ Len(ttss) < MaxTts
  /\ LET text == Min(textLen, TextMax)      \* slice(0, 1200)
         r0   == [ textLen |-> textLen, voice |-> voice, pc |-> "done", status |-> 400,
                   called |-> FALSE, voiceSent |-> <<>>, input |-> 0 ]
     IN
     IF text = 0
     THEN ttss' = Append(ttss, r0)
     ELSE ttss' = Append(ttss, [r0 EXCEPT !.pc = "awaiting", !.status = 0, !.called = TRUE,
                                         !.voiceSent = voiceOf(envVoice), !.input = text])
  /\ UNCHANGED <<envVoice, askVars, trimVars, sttVars>>

\* Lines 209-212: the audio is sent back.
TtsResume(i) ==
  /\ i \in TtsInFlight
  /\ ttss' = [ttss EXCEPT ![i] = [@ EXCEPT !.pc = "done", !.status = 200]]
  /\ UNCHANGED <<envVoice, askVars, trimVars, sttVars>>

\* Lines 213-218: the call failed.
TtsFail(i, e) ==
  /\ i \in TtsInFlight
  /\ ttss' = [ttss EXCEPT ![i] = [@ EXCEPT !.pc = "done", !.status = ErrStatus(e)]]
  /\ UNCHANGED <<envVoice, askVars, trimVars, sttVars>>

InitTts ==
  /\ envVoice \in Voices
  /\ ttss = <<>>
  /\ IdleAsk /\ IdleTrim /\ IdleStt

NextTts ==
  \/ \E n \in TextLens, v \in Voices : TtsStart(n, v)
  \/ \E i \in 1..MaxTts : TtsResume(i)
  \/ \E i \in 1..MaxTts, e \in ErrStatuses : TtsFail(i, e)

SpecTts == InitTts /\ [][NextTts]_vars

(***************************************************************************)
(* Properties of the session store and the chat relay.                     *)
(***************************************************************************)
Stored(s) == heap[sessions[s]]
SystemTurn == Turn("system", SYSTEM_PROMPT)
UserTurn(i) == Turn("user", reqs[i].userText)
AssistantTurn(i) == Turn("assistant", reqs[i].answer)

\* Every other request on i's session that started before j had completed
\* before i started.
NoneBetween(i, j) ==
  \A k \in (1..(j - 1)) \ {i} :
    reqs[k].sessionId = reqs[i].sessionId => k \in reqs[i].doneBefore

\* C1: every stored history has a system turn at index 0 and at no other
\* index, whatever requests ran and however they interleaved.
C1_SystemFirstOnly ==
  \A s \in DOMAIN sessions :
    /\ Len(Stored(s)) >= 1
    /\ Stored(s)[1] = SystemTurn
    /\ \A k \in 2..Len(Stored(s)) : Stored(s)[k].role # "system"

\* A session whose trimming has evicted turns, after a request completed on it.
C1_Witness ==
  \E i \in Done :
    /\ reqs[i].status = 200
    /\ Len(appended[reqs[i].sessionId]) > HistoryMax
    /\ Len(Stored(reqs[i].sessionId)) = HistoryMax + 1

\* Request i carried no sessionId, succeeded and returned s; request j, started
\* after i completed, carries s and is forwarded; no other request ran on s
\* in between.
C3_Premise(i, j) ==
  /\ i < j
  /\ reqs[i].rawSid = NoId
  /\ reqs[i].status = 200
  /\ i \in reqs[j].doneBefore
  /\ reqs[j].rawSid = reqs[i].respSid
  /\ reqs[j].called
  /\ NoneBetween(i, j)

Blank(m) ==
  \/ m.kind = "undefined"
  \/ m.kind = "string" /\ \A k \in 1..Len(m.val) : m.val[k] \in Whitespace

\* C4: a request whose message is missing, empty or whitespace-only is
\* answered 400, calls no remote service and leaves the store as it was.
C4_BlankRejected ==
  [][(Len(reqs') = Len(reqs) + 1 /\ Blank(reqs'[Len(reqs')].message)) =>
       /\ reqs'[Len(reqs')].pc = "done"
       /\ reqs'[Len(reqs')].status = 400
       /\ ~reqs'[Len(reqs')].called
       /\ sessions' = sessions
       /\ heap' = heap]_vars

\* A whitespace-only message was rejected while its sessionId was in the store.
C4_Witness ==
  \E i \in Done :
    /\ Blank(reqs[i].message) /\ reqs[i].message.val # <<>>
    /\ reqs[i].status = 400
    /\ reqs[i].rawSid \in DOMAIN sessions

\* C5 as stated: a session is only ever created under a token genId made.
C5_Original ==
  \A i \in 1..Len(reqs) :
    reqs[i].created => reqs[i].genTok # NoId /\ reqs[i].sessionId = reqs[i].genTok

\* C5 amended: a new session is stored, and returned, under the request's
\* sessionId when it carries one, and under a genId token only otherwise.
C5_ClientIdKept ==
  \A i \in 1..Len(reqs) :
    reqs[i].created =>
      /\ reqs[i].sessionId \in DOMAIN sessions
      /\ reqs[i].rawSid # NoId => reqs[i].sessionId = reqs[i].rawSid /\ reqs[i].genTok = NoId
      /\ reqs[i].rawSid = NoId => reqs[i].sessionId = reqs[i].genTok /\ reqs[i].genTok \in GenIds
      /\ reqs[i].status = 200 => reqs[i].respSid = reqs[i].sessionId

\* A session created, and returned, under an identifier the client chose.
C5_Witness ==
  \E i \in Done :
    /\ reqs[i].created /\ reqs[i].status = 200
    /\ reqs[i].rawSid \notin GenIds \cup {NoId}
    /\ reqs[i].respSid = reqs[i].rawSid

Raced(s) == \E i \in 1..Len(reqs) : reqs[i].sessionId = s /\ ~reqs[i].clean

\* C8: while no two requests of a session have overlapped, the stored history
\* is the system turn and the last 20 of all the turns pushed; the loss of a
\* pushed turn (C8_LostUpdate) needs an overlap.
C8_NoLossWithoutOverlap ==
  \A s \in DOMAIN sessions :
    ~Raced(s) => Stored(s) = trimMessages(<<SystemTurn>> \o appended[s], HistoryMax)

\* Two requests of one existing session overlapped, both succeeded, and the
\* stored history lacks the reply of the one that resumed first.
C8_LostUpdate ==
  \E i, j \in Done :
    /\ i < j /\ i \notin reqs[j].doneBefore
    /\ ~reqs[i].created /\ ~reqs[j].created
    /\ reqs[i].sessionId = reqs[j].sessionId
    /\ reqs[i].status = 200 /\ reqs[j].status = 200
    /\ reqs[i].answer # reqs[j].answer
    /\ reqs[i].userText # reqs[j].userText
    /\ LET s == reqs[i].sessionId
           n == Len(Stored(s))
       IN  /\ Stored(s)[n] = AssistantTurn(j)
           /\ Stored(s)[n - 1] = UserTurn(j)
           /\ Stored(s)[n - 2] = UserTurn(i)
           /\ \A k \in 1..n : Stored(s)[k] # AssistantTurn(i)

\* The remote call of request i failed.
RemoteFailed(i) == reqs[i].pc = "done" /\ reqs[i].called /\ reqs[i].status # 200

\* j is the next request on the session of i, which ran alone on it.
C10_Next(i, j) ==
  /\ i < j
  /\ RemoteFailed(i) /\ reqs[i].clean
  /\ i \in reqs[j].doneBefore
  /\ reqs[j].rawSid = reqs[i].sessionId /\ reqs[j].called
  /\ \A k \in (i + 1)..(j - 1) : reqs[k].sessionId # reqs[i].sessionId

C10_AfterFailure ==
  \A i \in 1..Len(reqs) :
    RemoteFailed(i) =>
      /\ reqs[i].sessionId \in DOMAIN sessions
      /\ (reqs[i].clean /\ \A k \in (i + 1)..Len(reqs) : reqs[k].sessionId # reqs[i].sessionId) =>
           /\ Stored(reqs[i].sessionId) = reqs[i].sent
           /\ reqs[i].sent[Len(reqs[i].sent)] = UserTurn(i)
      /\ \A j \in 1..Len(reqs) :
           C10_Next(i, j) =>
             LET n == Len(reqs[j].sent) IN
             /\ reqs[j].sent = trimMessages(Append(reqs[i].sent, UserTurn(j)), HistoryMax)
             /\ reqs[j].sent[n - 1] = UserTurn(i)
             /\ reqs[j].sent[n] = UserTurn(j)

\* C10: a failed remote call leaves the store as the request's first half
\* wrote it: the entry exists and ends with the request's user turn, and the
\* next request on the session forwards two consecutive user turns.
C10_NoRollback ==
  [][/\ \A i \in InFlight :
          (reqs'[i].pc = "done" /\ reqs'[i].status # 200) =>
            sessions' = sessions /\ heap' = heap
     /\ C10_AfterFailure']_vars

\* A request that created its session failed, and the next one forwarded both user turns.
C10_Witness ==
  \E i, j \in 1..Len(reqs) :
    /\ C10_Next(i, j) /\ reqs[i].created
    /\ Len(reqs[j].sent) = 3 /\ reqs[i].userText # reqs[j].userText

(***************************************************************************)
(* Properties of trimMessages, /stt and /tts.                              *)
(***************************************************************************)
\* The last n elements of s.
LastN(s, n) == SubSeq(s, Len(s) - n + 1, Len(s))

\* C2: trimMessages(seq, max) is the first element when it is a system turn,
\* then exactly the last min(max, length) elements of the remainder; for
\* max = 0 nothing of the remainder.
C2_TrimContract ==
  tpc = "done" =>
    LET lead == IF tIn # <<>> /\ tIn[1].role = "system" THEN <<tIn[1]>> ELSE <<>>
        rest == SubSeq(tIn, Len(lead) + 1, Len(tIn))
    IN  tOut = lead \o LastN(rest, Min(tMax, Len(rest)))

\* C6: every completed /stt request that wrote its transient file has issued
\* the removal of that file, whether the transcription succeeded or failed.
C6_AlwaysRemoved ==
  \A i \in 1..Len(stts) :
    (stts[i].pc = "done" /\ stts[i].wrote) => stts[i].unlinked

\* C9: uploads whose media types map to one extension share their transient
\* path; uploads whose media types map to different extensions use different
\* paths, and neither reads, overwrites nor removes the other's file.
C9_SharedPathByExtension ==
  \A i, j \in 1..Len(stts) :
    (i # j /\ stts[i].wrote /\ stts[j].wrote) =>
      IF extByMime(stts[i].mimetype) = extByMime(stts[j].mimetype)
      THEN stts[i].path = stts[j].path
      ELSE /\ stts[i].path # stts[j].path
           /\ stts[i].readFrom # j
           /\ files[stts[i].path].by # j

\* Two overlapping uploads of one extension: the first read the bytes the
\* second wrote over its own, and the second found the file removed by the
\* first one's cleanup.
C9_Collision ==
  \E i, j \in 1..Len(stts) :
    /\ i < j
    /\ stts[i].mimetype # stts[j].mimetype
    /\ extByMime(stts[i].mimetype) = extByMime(stts[j].mimetype)
    /\ stts[i].read = "data" /\ stts[i].readFrom = j
    /\ stts[j].read = "enoent" /\ stts[j].readFrom = i

\* C7: the voice handed to the remote speech service is the request's voice
\* selector lower-cased when it is in the allow-list, and the default voice
\* otherwise.
C7_RequestVoiceUsed ==
  \A i \in 1..Len(ttss) :
    ttss[i].called =>
      ttss[i].voiceSent =
        IF ttss[i].voice.kind = "string" /\ toLowerCase(ttss[i].voice.val) \in allowedVoices
        THEN toLowerCase(ttss[i].voice.val)
        ELSE voiceOf(envVoice)

====
